---- MODULE Spec2Model ----
(***************************************************************************)
(* The application status/metrics service of src/src/app/src/server.js:    *)
(* the Express middleware stack in registration order, the process-wide    *)
(* counters in app.locals, the rate limiter's store, the HTTP connections  *)
(* of the listener and the signal-driven shutdown (Spec, FairSpec); and    *)
(* the two deployment scripts, deploy-app.sh (src/unnamed/part_001) and    *)
(* deploy-local.sh (src/scripts/setup.sh), statement by statement of their *)
(* main functions (DeploySpec, DeployFairSpec).                            *)
(*                                                                         *)
(* JavaScript values: app.locals.requestCount and avgResponseTime start    *)
(* undefined and are only ever read through `x || d`.  A property that is  *)
(* not set is NotSet, the empty tuple; the integer n is Num(n) = <<n>>.    *)
(* The running average is a float in the code; here it is the exact        *)
(* rational <<numerator, denominator>> in lowest terms, <<1, 0>> is        *)
(* Infinity and <<0, 0>> is NaN.  Or(x, d) is `||` on all of these:        *)
(* undefined, NaN and 0 are falsy.                                         *)
(***************************************************************************)
EXTENDS Integers, Sequences, FiniteSets, TLC

\* ------------------------------------------------------------- bounds
MaxConns == 1        \* connections the listener holds at once
MaxTime == 1         \* clock ticks the model follows
MaxRequests == 2     \* individually modelled requests per rate-limit window
MaxCount == 2        \* the observers' counters saturate here ("or more")
MaxSignals == 2      \* termination signals delivered to the process

\* ------------------------------------------------- program constants
RateMax == 100          \* rateLimit({ max: 100 })
MaxAttempts == 30       \* local max_attempts=30, in both scripts

Conns == 1..MaxConns
Methods == {"GET", "POST", "OPTIONS"}
RoutePaths == {"/", "/health", "/metrics", "/api/v1/status", "/api/v1/info"}
\* "/%" stands for a path that is not valid percent-encoding.
OtherPaths == {"/nonexistent", "/%"}
Paths == RoutePaths \cup OtherPaths
\* The requests clients send: a GET of every path; GET and POST, with a
\* well-formed and with an unparseable body, of a defined, an undefined and
\* an undecodable path; preflights.
Requests ==
  [method : {"GET"}, path : Paths, badBody : {FALSE}]
    \cup [method : {"GET", "POST"}, path : {"/health", "/nonexistent", "/%"},
          badBody : BOOLEAN]
    \cup [method : {"OPTIONS"}, path : {"/health", "/nonexistent"}, badBody : BOOLEAN]
NodeEnvs == {"", "development", "production"}   \* "" is NODE_ENV unset
Signals == {"SIGTERM", "SIGINT"}

NoListener == -1
\* A property of app.locals that has never been assigned: undefined.
NotSet == <<>>
\* The JavaScript number that is the integer n.
Num(n) == <<n>>
Infinity == <<1, 0>>
NaN == <<0, 0>>
NoErr == [msg |-> "", status |-> 0]
NoRes == [status |-> 0, by |-> "none", error |-> "", message |-> <<>>,
          state |-> "", uptime |-> 0, environment |-> "",
          total |-> Num(0), average |-> <<0, 1>>,
          application |-> "", version |-> "", technologies |-> <<>>]
NoReq == [method |-> "", path |-> "", badBody |-> FALSE]

VARIABLES
  nodeEnv,          \* process.env.NODE_ENV
  requireMain,      \* require.main === module: run with `node server.js`
  phase,            \* "Starting", "Running", "Stopped"
  exitCode,         \* -1 while the process lives
  listening,        \* the server's listen handle is open
  closeCbs,         \* callbacks registered by server.close(cb), not yet called
  conns,            \* per connection: "closed", "idle", "busy" (request in flight)
  finishStart,      \* per connection: `start` of the res.on('finish') listener
  requestCount,     \* app.locals.requestCount
  avgResponseTime,  \* app.locals.avgResponseTime
  hits,             \* the rate limiter's counter for the client address
  clock,            \* time since process start
  sent,             \* individually modelled requests in this window (bound)
  last,             \* observer: the latest request and the response it got
  completed,        \* observer: finished responses so far, saturating
  firstDur,         \* observer: duration of the first finished request, or -1
  reqStart,         \* observer: per connection, clock when its request arrived
                    \* (followed until the first response has finished)
  maxUptime,        \* observer: largest uptime /health has reported
  deploy            \* a run of a deployment script: its arguments, the
                    \* machine it runs on, its position and what it has done

serverVars == <<nodeEnv, requireMain, phase, exitCode, listening, closeCbs, conns, finishStart,
                requestCount, avgResponseTime, hits, clock, sent, last,
                completed, firstDur, reqStart, maxUptime>>

vars == <<serverVars, deploy>>

\* ------------------------------------------------------------ helpers
Min(a, b) == IF a < b THEN a ELSE b
Max(a, b) == IF a > b THEN a ELSE b

\* JavaScript `x || d` on a number or undefined.
Or(x, d) == IF x = NotSet THEN d ELSE IF x[1] = 0 THEN d ELSE x

RECURSIVE Gcd(_, _)
Gcd(a, b) == IF b = 0 THEN a ELSE Gcd(b, a % b)

\* The float n / d of non-negative n and d: 0 / 0 is NaN, n / 0 Infinity.
Rat(n, d) ==
  IF d = 0 THEN (IF n = 0 THEN NaN ELSE Infinity)
  ELSE LET g == Gcd(n, d) IN <<n \div g, d \div g>>

\* A sign slip: the start time minus now.
UptimeNegated == 0 - clock

\* process.uptime(): time since process start.
Uptime == clock

\* process.env.NODE_ENV || 'development'
EnvOrDefault == IF nodeEnv = "" THEN "development" ELSE nodeEnv

\* ------------------------------------------------- the middleware stack
\* app.use / app.get in registration order.  kind: "mw" (req, res, next),
\* "route" (app.get) or "error" (err, req, res, next).
StackInOrder == <<
  [name |-> "helmet",         kind |-> "mw",    path |-> "/"],
  [name |-> "cors",           kind |-> "mw",    path |-> "/"],
  [name |-> "limiter",        kind |-> "mw",    path |-> "/"],
  [name |-> "morgan",         kind |-> "mw",    path |-> "/"],
  [name |-> "json",           kind |-> "mw",    path |-> "/"],
  [name |-> "urlencoded",     kind |-> "mw",    path |-> "/"],
  [name |-> "root",           kind |-> "route", path |-> "/"],
  [name |-> "health",         kind |-> "route", path |-> "/health"],
  [name |-> "metrics",        kind |-> "route", path |-> "/metrics"],
  [name |-> "status",         kind |-> "route", path |-> "/api/v1/status"],
  [name |-> "info",           kind |-> "route", path |-> "/api/v1/info"],
  [name |-> "errorHandler",   kind |-> "error", path |-> "/"],
  [name |-> "notFound",       kind |-> "mw",    path |-> "*"],
  [name |-> "requestCounter", kind |-> "mw",    path |-> "/"],
  [name |-> "responseTime",   kind |-> "mw",    path |-> "/"] >>

\* The catch-all registered ahead of the routes instead of after them.
StackCatchAllFirst ==
  SubSeq(StackInOrder, 1, 6) \o <<StackInOrder[13]>>
    \o SubSeq(StackInOrder, 7, 12) \o SubSeq(StackInOrder, 14, 15)

Stack == StackInOrder

RouteNames == {"root", "health", "metrics", "status", "info"}

\* A handler that sends its response and calls next() as well.
RespondAndContinue(ctx, res) == [ctx EXCEPT !.res = res, !.sends = @ + 1]

\* What a handler leaves behind: ctx.flow is "next" (next() was called),
\* "error" (next(err) or a throw) or "end" (the response was sent);
\* ctx.sends counts the responses written.
Respond(ctx, res) == [ctx EXCEPT !.flow = "end", !.res = res, !.sends = @ + 1]

\* ------------------------------------------------------------ handlers
\* helmet(), express.urlencoded(): set headers / parse, then next().
PassThrough(req, ctx) == ctx

\* morgan('combined', {stream}): the access line of the request goes to
\* logger.info (written when the response has been sent), then next().
Morgan(req, ctx) == [ctx EXCEPT !.log = @ \cup {<<"info", "access">>}]

\* cors(): answers a preflight (OPTIONS) itself with 204, otherwise next().
Cors(req, ctx) ==
  IF req.method = "OPTIONS"
    THEN Respond(ctx, [NoRes EXCEPT !.status = 204, !.by = "cors"])
    ELSE ctx

\* The limit compared one too high: one request too many is let through.
LimiterAllowsOneMore(req, ctx) ==
  LET n == ctx.hits + 1 IN
  IF n > RateMax + 1
    THEN Respond([ctx EXCEPT !.hits = n],
                 [NoRes EXCEPT !.status = 429, !.by = "limiter",
                    !.message = <<"Too many requests from this IP, please try again later.">>])
    ELSE [ctx EXCEPT !.hits = n]

\* rateLimit({windowMs, max: 100, message}): count the hit, 429 above max.
Limiter(req, ctx) ==
  LET n == ctx.hits + 1 IN
  IF n > RateMax
    THEN Respond([ctx EXCEPT !.hits = n],
                 [NoRes EXCEPT !.status = 429, !.by = "limiter",
                    !.message = <<"Too many requests from this IP, please try again later.">>])
    ELSE [ctx EXCEPT !.hits = n]

\* express.json(): a body it cannot parse is next(err) with status 400.
JsonParser(req, ctx) ==
  IF req.badBody
    THEN [ctx EXCEPT !.flow = "error",
                     !.err = [msg |-> "Unexpected token in JSON", status |-> 400]]
    ELSE ctx

\* The technologies array literal of '/' and '/api/v1/info'.
Technologies ==
  <<"Node.js", "Express", "Docker", "Kubernetes",
    "Jenkins", "GitHub Actions", "Terraform", "Ansible",
    "SonarQube", "Trivy", "Prometheus", "Grafana">>

\* app.get('/')
RootHandler(req, ctx) ==
  Respond(ctx, [NoRes EXCEPT !.status = 200, !.by = "root", !.state = "success",
     !.message = <<"Welcome to DevOps CI/CD Pipeline Application!">>,
     !.technologies = Technologies])

\* app.get('/health')
HealthHandler(req, ctx) ==
  Respond(ctx, [NoRes EXCEPT !.status = 200, !.by = "health", !.state = "healthy",
     !.uptime = Uptime, !.environment = EnvOrDefault])

\* The average computed on reading, as a sum divided by the request count,
\* with no guard for a count of 0.
MetricsHandlerDividing(req, ctx) ==
  Respond(ctx, [NoRes EXCEPT !.status = 200, !.by = "metrics",
     !.total = Or(ctx.requestCount, Num(0)),
     !.average = Rat(Or(ctx.avgResponseTime, <<0, 1>>)[1],
                     Or(ctx.requestCount, Num(0))[1])])

\* The two statistics read without their `|| 0` defaults.
MetricsHandlerNoDefault(req, ctx) ==
  Respond(ctx, [NoRes EXCEPT !.status = 200, !.by = "metrics",
     !.total = ctx.requestCount, !.average = ctx.avgResponseTime])

\* app.get('/metrics')
MetricsHandler(req, ctx) ==
  Respond(ctx, [NoRes EXCEPT !.status = 200, !.by = "metrics",
     !.total = Or(ctx.requestCount, Num(0)),
     !.average = Or(ctx.avgResponseTime, <<0, 1>>)])

\* app.get('/api/v1/status'): res.json without res.status is 200.
StatusHandler(req, ctx) ==
  Respond([ctx EXCEPT !.log = @ \cup {<<"info", "Status endpoint accessed">>}],
     [NoRes EXCEPT !.status = 200, !.by = "status", !.state = "success",
        !.message = <<"DevOps CI/CD Pipeline Application is running!">>])

\* The info payload with the process uptime added to it.
InfoHandlerWithUptime(req, ctx) ==
  Respond(ctx, [NoRes EXCEPT !.status = 200, !.by = "info",
     !.application = "DevOps CI/CD Pipeline Demo", !.version = "1.0.0",
     !.technologies = Technologies, !.uptime = Uptime])

\* app.get('/api/v1/info'): res.json of a literal.
InfoHandler(req, ctx) ==
  Respond(ctx, [NoRes EXCEPT !.status = 200, !.by = "info",
     !.application = "DevOps CI/CD Pipeline Demo", !.version = "1.0.0",
     !.technologies = Technologies])

\* app.use((err, req, res, next) => ...)
ErrorHandler(req, ctx) ==
  Respond([ctx EXCEPT !.log = @ \cup {<<"error", "Unhandled error:">>}],
     [NoRes EXCEPT !.status = 500, !.by = "errorHandler",
        !.error = "Internal Server Error",
        !.message = IF nodeEnv = "development" THEN <<ctx.err.msg>>
                                               ELSE <<"Something went wrong">>])

\* The catch-all reporting the miss through logger.error.
NotFoundHandlerLogsError(req, ctx) ==
  Respond([ctx EXCEPT !.log = @ \cup {<<"error", "Route not found">>}],
     [NoRes EXCEPT !.status = 404, !.by = "notFound",
        !.error = "Not Found", !.message = <<"Route ", req.path, " not found">>])

\* The catch-all with a fixed message, the requested path left out.
NotFoundHandlerNoUrl(req, ctx) ==
  Respond(ctx, [NoRes EXCEPT !.status = 404, !.by = "notFound",
     !.error = "Not Found", !.message = <<"Route not found">>])

\* app.use('*', ...): `Route ${req.originalUrl} not found`
NotFoundHandler(req, ctx) ==
  Respond(ctx, [NoRes EXCEPT !.status = 404, !.by = "notFound",
     !.error = "Not Found", !.message = <<"Route ", req.path, " not found">>])

\* Request counting middleware
RequestCounter(req, ctx) ==
  [ctx EXCEPT !.requestCount = Num(Or(ctx.requestCount, Num(0))[1] + 1)]

\* Response time middleware: start = Date.now(); res.on('finish', ...)
ResponseTime(req, ctx) == [ctx EXCEPT !.start = clock]

\* The 'finish' listener's update of the running average.
FinishUpdate(avg, count, duration) ==
  LET avgTime == Or(avg, <<0, 1>>)
      totalRequests == Or(count, Num(1))[1]
  IN  Rat(avgTime[1] * (totalRequests - 1) + duration * avgTime[2],
          avgTime[2] * totalRequests)

Handle(name, req, ctx) ==
  CASE name = "cors"           -> Cors(req, ctx)
    [] name = "morgan"         -> Morgan(req, ctx)
    [] name = "limiter"        -> Limiter(req, ctx)
    [] name = "json"           -> JsonParser(req, ctx)
    [] name = "root"           -> RootHandler(req, ctx)
    [] name = "health"         -> HealthHandler(req, ctx)
    [] name = "metrics"        -> MetricsHandler(req, ctx)
    [] name = "status"         -> StatusHandler(req, ctx)
    [] name = "info"           -> InfoHandler(req, ctx)
    [] name = "errorHandler"   -> ErrorHandler(req, ctx)
    [] name = "notFound"       -> NotFoundHandler(req, ctx)
    [] name = "requestCounter" -> RequestCounter(req, ctx)
    [] name = "responseTime"   -> ResponseTime(req, ctx)
    [] OTHER                   -> PassThrough(req, ctx)

\* ---------------------------------------------------- Express's router
\* Layer.match: a route matches its method and path; a '/' middleware
\* matches every path; the '*' middleware decodes the path into a param
\* and fails with a 400 URIError when the path is not decodable.
Decodable(path) == path # "/%"

\* Routes registered with app.all: any method of the path matches.
LayerMatchAnyMethod(layer, req) ==
  CASE layer.kind = "route" -> IF req.path = layer.path THEN "yes" ELSE "no"
    [] layer.path = "*" -> IF Decodable(req.path) THEN "yes" ELSE "fail"
    [] OTHER -> "yes"

LayerMatch(layer, req) ==
  CASE layer.kind = "route" ->
         IF req.method = "GET" /\ req.path = layer.path THEN "yes" ELSE "no"
    [] layer.path = "*" -> IF Decodable(req.path) THEN "yes" ELSE "fail"
    [] OTHER -> "yes"

\* No layer answered: Express's final handler.  It answers a pending error
\* with the error's status and prints it with console.error (unless the
\* environment is "test"): to stderr, not through the logger.
FinalHandler(req, ctx) ==
  IF ctx.err # NoErr
    THEN Respond([ctx EXCEPT !.log = IF nodeEnv = "test" THEN @
                                     ELSE @ \cup {<<"stderr", ctx.err.msg>>}],
                 [NoRes EXCEPT !.status = ctx.err.status, !.by = "finalhandler"])
    ELSE Respond(ctx, [NoRes EXCEPT !.status = 404, !.by = "finalhandler"])

\* next(): walk the stack from layer i.  With an error pending only
\* error-handling layers run; without one they are skipped.
RECURSIVE Walk(_, _, _)
Walk(i, req, ctx) ==
  IF ctx.flow = "end" THEN ctx
  ELSE IF i > Len(Stack) THEN FinalHandler(req, ctx)
  ELSE
    LET layer == Stack[i]
        m == LayerMatch(layer, req)
        pending == ctx.err # NoErr
    IN  IF m = "no" THEN Walk(i + 1, req, ctx)
        ELSE IF m = "fail" THEN
          Walk(i + 1, req,
               IF pending THEN ctx
               ELSE [ctx EXCEPT !.flow = "error",
                       !.err = [msg |-> "Failed to decode param", status |-> 400]])
        ELSE IF layer.kind = "route" /\ pending THEN Walk(i + 1, req, ctx)
        ELSE IF (layer.kind = "error") # pending THEN Walk(i + 1, req, ctx)
        ELSE Walk(i + 1, req,
                  Handle(layer.name, req, [ctx EXCEPT !.ran = Append(@, layer.name)]))

\* app.handle(req, res): the whole stack on one request.
Dispatch(req, h, rc, avg) ==
  Walk(1, req, [flow |-> "next", err |-> NoErr, hits |-> h, requestCount |-> rc,
                avgResponseTime |-> avg, start |-> NoListener, res |-> NoRes,
                ran |-> <<>>, log |-> {}, sends |-> 0])

\* The response's 'finish' event: run the listener if one was registered.
AfterFinish(avg, rc, start) ==
  IF start = NoListener THEN avg ELSE FinishUpdate(avg, rc, clock - start)

\* ------------------------------------------------------------- actions
\* No deployment script is running.
NoDeploy ==
  [script |-> "none", pc |-> "done", exit |-> -1,
   environment |-> "", registry |-> "", skipTests |-> FALSE, skipScans |-> FALSE,
   hasTrivy |-> FALSE, hasGitleaks |-> FALSE, trivyExitCode |-> 0,
   reported |-> FALSE, built |-> FALSE, pushed |-> FALSE, applied |-> FALSE,
   started |-> FALSE, secretsFound |-> FALSE,
   imageScanned |-> FALSE, arguments |-> "known",
   tests |-> "none", attempts |-> 0, answered |-> FALSE,
   reportedSuccess |-> FALSE, commands |-> {}]

\* NODE_ENV under jest, which imports the module with require('./server').
TestEnv == "test"

\* The server process right after its start: the module was run with
\* node, or imported by the test file.
ServerInit ==
  /\ requireMain \in BOOLEAN
  /\ nodeEnv \in IF requireMain THEN NodeEnvs ELSE {TestEnv}
  /\ phase = "Starting"
  /\ exitCode = -1
  /\ listening = FALSE
  /\ closeCbs = 0
  /\ conns = [c \in Conns |-> "closed"]
  /\ finishStart = [c \in Conns |-> NoListener]
  /\ requestCount = NotSet
  /\ avgResponseTime = NotSet
  /\ hits = 0
  /\ clock = 0
  /\ sent = 0
  /\ last = [req |-> NoReq, res |-> NoRes, ran |-> <<>>, log |-> {},
             err |-> NoErr, sends |-> 0, overLimit |-> FALSE,
             completedBefore |-> 0, busyBefore |-> 0,
             uptimeBefore |-> 0, countBefore |-> NotSet]
  /\ completed = 0
  /\ firstDur = -1
  /\ reqStart = [c \in Conns |-> 0]
  /\ maxUptime = 0

Init == ServerInit /\ deploy = NoDeploy

Busy == {c \in Conns : conns[c] = "busy"}

\* Observer: the request, its response, the layers that ran, what was
\* logged, the error raised on the way, whether the client had used up
\* its allowance, and what had happened before it: for a /metrics answer the
\* requests completed and those still in flight, for a /health answer the
\* largest uptime reported earlier.
Observe(req, out) ==
  LET m == out.res.by = "metrics" IN
  [req |-> req, res |-> out.res, ran |-> out.ran, log |-> out.log,
   err |-> out.err, sends |-> out.sends, overLimit |-> (hits >= RateMax),
   completedBefore |-> IF m THEN completed ELSE 0,
   busyBefore |-> IF m THEN Cardinality(Busy) ELSE 0,
   uptimeBefore |-> IF out.res.by = "health" THEN maxUptime ELSE 0,
   countBefore |-> requestCount]

\* app.listen(PORT, cb): the port is bound and the callback logs.
ListenOk ==
  /\ phase = "Starting"
  /\ phase' = "Running"
  /\ listening' = TRUE
  /\ UNCHANGED <<deploy, nodeEnv, requireMain, exitCode, closeCbs, conns, finishStart, requestCount,
                 avgResponseTime, hits, clock, sent, last, completed,
                 firstDur, reqStart, maxUptime>>

\* A server.on('error') listener that only logs: the process stays up
\* without a listener.
ListenFailIgnored ==
  /\ phase = "Starting"
  /\ phase' = "Running"
  /\ UNCHANGED <<deploy, nodeEnv, requireMain, exitCode, listening, closeCbs, conns, finishStart,
                 requestCount, avgResponseTime, hits, clock, sent, last,
                 completed, firstDur, reqStart, maxUptime>>

\* app.listen fails to bind: the server's 'error' event has no listener,
\* so it is thrown as an uncaught exception and the process exits with 1.
ListenFail ==
  /\ phase = "Starting"
  /\ phase' = "Stopped"
  /\ exitCode' = 1
  /\ UNCHANGED <<deploy, nodeEnv, requireMain, listening, closeCbs, conns, finishStart, requestCount,
                 avgResponseTime, hits, clock, sent, last, completed,
                 firstDur, reqStart, maxUptime>>

\* A client opens a connection; only a listening server accepts it.
Connect(c) ==
  /\ phase = "Running"
  /\ listening
  /\ conns[c] = "closed"
  /\ conns' = [conns EXCEPT ![c] = "idle"]
  /\ UNCHANGED <<deploy, nodeEnv, requireMain, phase, exitCode, listening, closeCbs, finishStart,
                 requestCount, avgResponseTime, hits, clock, sent, last,
                 completed, firstDur, reqStart, maxUptime>>

\* A request arrives on an open connection and runs through the stack.
\* The stack is synchronous: the response is written in this step and is
\* delivered (its 'finish' event) in Finish.
Request(c, req) ==
  /\ phase = "Running"
  /\ conns[c] = "idle"
  /\ sent < MaxRequests
  /\ LET out == Dispatch(req, hits, requestCount, avgResponseTime) IN
       /\ hits' = out.hits
       /\ requestCount' = out.requestCount
       /\ avgResponseTime' = out.avgResponseTime
       /\ finishStart' = [finishStart EXCEPT ![c] = out.start]
       /\ last' = Observe(req, out)
       /\ maxUptime' = IF out.res.by = "health" THEN Max(maxUptime, out.res.uptime)
                                                ELSE maxUptime
  /\ conns' = [conns EXCEPT ![c] = "busy"]
  /\ sent' = sent + 1
  /\ reqStart' = [reqStart EXCEPT ![c] = IF completed = 0 THEN clock ELSE 0]
  /\ UNCHANGED <<deploy, nodeEnv, requireMain, phase, exitCode, listening, closeCbs, clock, completed,
                 firstDur>>

\* One request of a series, run to its end within the current tick.
ServeOne(req, st) ==
  LET out == Dispatch(req, st.hits, st.requestCount, st.avgResponseTime) IN
  [hits |-> out.hits, requestCount |-> out.requestCount,
   avgResponseTime |-> AfterFinish(out.avgResponseTime, out.requestCount, out.start),
   out |-> out]

\* n >= 1 requests one after the other (split in halves to keep the
\* evaluation shallow).
RECURSIVE Serve(_, _, _)
Serve(n, req, st) ==
  IF n = 1 THEN ServeOne(req, st)
  ELSE LET half == Serve(n \div 2, req, st) IN
       IF half.hits < 0 THEN half ELSE Serve(n - n \div 2, req, half)

\* The size of a client's request series: it stops one short of the limit.
BurstSize == RateMax - 1

\* A client sends BurstSize requests for the welcome page one after the
\* other on a kept-alive connection, each answered before the next.  The
\* series opens a rate-limit window of a listening server, so it stays
\* within the limit.
Burst(c) ==
  /\ phase = "Running"
  /\ listening
  /\ conns[c] = "idle"
  /\ hits = 0
  /\ LET req == [method |-> "GET", path |-> "/", badBody |-> FALSE]
         st == Serve(BurstSize, req,
                     [hits |-> hits, requestCount |-> requestCount,
                      avgResponseTime |-> avgResponseTime, out |-> NoRes])
     IN  /\ hits' = st.hits
         /\ requestCount' = st.requestCount
         /\ avgResponseTime' = st.avgResponseTime
         /\ last' = Observe(req, st.out)
  /\ completed' = Min(completed + BurstSize, MaxCount)
  /\ firstDur' = IF completed = 0 THEN 0 ELSE firstDur
  /\ UNCHANGED <<deploy, nodeEnv, requireMain, phase, exitCode, listening, closeCbs, conns, finishStart,
                 clock, sent, reqStart, maxUptime>>

\* A 'finish' listener that takes the request out of the count again, as
\* for a gauge of requests in flight.
FinishUncounts(c, keepAlive) ==
  /\ phase = "Running"
  /\ conns[c] = "busy"
  /\ requestCount' = Num(Or(requestCount, Num(0))[1] - 1)
  /\ avgResponseTime' = AfterFinish(avgResponseTime, requestCount, finishStart[c])
  /\ finishStart' = [finishStart EXCEPT ![c] = NoListener]
  /\ conns' = [conns EXCEPT ![c] = IF keepAlive THEN "idle" ELSE "closed"]
  /\ completed' = Min(completed + 1, MaxCount)
  /\ firstDur' = IF completed = 0 THEN clock - reqStart[c] ELSE firstDur
  /\ reqStart' = [reqStart EXCEPT ![c] = 0]
  /\ UNCHANGED <<deploy, nodeEnv, requireMain, phase, exitCode, listening, closeCbs, hits,
                 clock, sent, last, maxUptime>>

\* The response is flushed: 'finish' fires, then the connection is kept
\* alive or closed.
Finish(c, keepAlive) ==
  /\ phase = "Running"
  /\ conns[c] = "busy"
  /\ avgResponseTime' = AfterFinish(avgResponseTime, requestCount, finishStart[c])
  /\ finishStart' = [finishStart EXCEPT ![c] = NoListener]
  /\ conns' = [conns EXCEPT ![c] = IF keepAlive THEN "idle" ELSE "closed"]
  /\ completed' = Min(completed + 1, MaxCount)
  /\ firstDur' = IF completed = 0 THEN clock - reqStart[c] ELSE firstDur
  /\ reqStart' = [reqStart EXCEPT ![c] = 0]
  /\ UNCHANGED <<deploy, nodeEnv, requireMain, phase, exitCode, listening, closeCbs, requestCount, hits,
                 clock, sent, last, maxUptime>>

\* An idle connection ends: the client closes it or keepAliveTimeout fires.
Disconnect(c) ==
  /\ phase = "Running"
  /\ conns[c] = "idle"
  /\ conns' = [conns EXCEPT ![c] = "closed"]
  /\ UNCHANGED <<deploy, nodeEnv, requireMain, phase, exitCode, listening, closeCbs, finishStart,
                 requestCount, avgResponseTime, hits, clock, sent, last,
                 completed, firstDur, reqStart, maxUptime>>

\* A handler that calls process.exit(0) itself instead of leaving it to
\* the close callback.
SignalExitsAtOnce(sig) ==
  /\ phase = "Running"
  /\ closeCbs < MaxSignals
  /\ listening' = FALSE
  /\ closeCbs' = closeCbs + 1
  /\ phase' = "Stopped"
  /\ exitCode' = 0
  /\ UNCHANGED <<deploy, nodeEnv, requireMain, conns, finishStart, requestCount,
                 avgResponseTime, hits, clock, sent, last, completed,
                 firstDur, reqStart, maxUptime>>

\* process.on('SIGTERM' / 'SIGINT'): log, then server.close(cb).  close()
\* releases the listen handle and registers cb for the 'close' event; open
\* connections are left as they are.
Signal(sig) ==
  /\ phase = "Running"
  /\ closeCbs < MaxSignals
  /\ listening' = FALSE
  /\ closeCbs' = closeCbs + 1
  /\ UNCHANGED <<deploy, nodeEnv, requireMain, phase, exitCode, conns, finishStart, requestCount,
                 avgResponseTime, hits, clock, sent, last, completed,
                 firstDur, reqStart, maxUptime>>

\* The server emits 'close' once it no longer listens and every connection
\* has ended.
Drained == ~listening /\ \A c \in Conns : conns[c] = "closed"

\* The close callback: logger.info('Process terminated'); process.exit(0).
Exit ==
  /\ phase = "Running"
  /\ closeCbs > 0
  /\ Drained
  /\ phase' = "Stopped"
  /\ exitCode' = 0
  /\ closeCbs' = 0
  /\ UNCHANGED <<deploy, nodeEnv, requireMain, listening, conns, finishStart, requestCount,
                 avgResponseTime, hits, clock, sent, last, completed,
                 firstDur, reqStart, maxUptime>>

\* Time passes.
Tick ==
  /\ phase = "Running"
  /\ clock < MaxTime
  /\ clock' = clock + 1
  /\ UNCHANGED <<deploy, nodeEnv, requireMain, phase, exitCode, listening, closeCbs, conns, finishStart,
                 requestCount, avgResponseTime, hits, sent, last,
                 completed, firstDur, reqStart, maxUptime>>

\* windowMs has passed: the limiter's store forgets the client's hits.
WindowReset ==
  /\ phase = "Running"
  /\ hits > 0
  /\ hits' = 0
  /\ sent' = 0
  /\ UNCHANGED <<deploy, nodeEnv, requireMain, phase, exitCode, listening, closeCbs, conns, finishStart,
                 requestCount, avgResponseTime, clock, last, completed,
                 firstDur, reqStart, maxUptime>>

Next ==
  \/ ListenOk
  \/ ListenFail
  \/ \E c \in Conns : Connect(c)
  \/ \E c \in Conns, req \in Requests : Request(c, req)
  \/ \E c \in Conns : Burst(c)
  \/ \E c \in Conns, k \in BOOLEAN : Finish(c, k)
  \/ \E c \in Conns : Disconnect(c)
  \/ \E sig \in Signals : Signal(sig)
  \/ Exit
  \/ Tick
  \/ WindowReset

Spec == Init /\ [][Next]_vars

\* Node's scheduling: a written response is flushed, an idle connection
\* ends (client close or keepAliveTimeout), a drained server emits 'close'.
FairSpec ==
  /\ Spec
  /\ WF_vars(Exit)
  /\ \A c \in Conns : WF_vars(\E k \in BOOLEAN : Finish(c, k))
  /\ \A c \in Conns : WF_vars(Disconnect(c))

\* ------------------------------------------- the deployment scripts
\* deploy-app.sh (to Kubernetes) and deploy-local.sh (to the local Docker
\* daemon).  Both run under `set -e`: a command that exits non-zero, outside
\* a condition, ends the script with that status ("1" here).
\* deploy-app.sh takes its options from the command line; deploy-local.sh
\* takes none.  The machine has trivy and gitleaks installed or not, and
\* trivy is configured or not to exit non-zero when it finds something
\* (--exit-code, default 0: neither script passes the option).
Scripts == {"deploy-app", "deploy-local"}

\* The values given with -e: the three the script names, the spelling the
\* project summary uses for the third, and one that nothing documents.
Environments == {"dev", "staging", "prod", "production", "qa"}

\* The command line apart from the options with a value: only options the
\* script knows, one it does not know, or -h.
Arguments == {"known", "unknown", "help"}

DeployStarts ==
  {[NoDeploy EXCEPT !.script = "deploy-app", !.pc = "parse", !.arguments = a,
      !.environment = e, !.registry = r, !.skipTests = st, !.skipScans = ss,
      !.hasTrivy = t, !.hasGitleaks = g, !.trivyExitCode = x] :
     a \in Arguments, e \in Environments, r \in {"local", "registry.example.com"},
     st \in BOOLEAN, ss \in BOOLEAN, t \in BOOLEAN, g \in BOOLEAN, x \in {0, 1}}
  \cup
  {[NoDeploy EXCEPT !.script = "deploy-local", !.pc = "prereq",
      !.hasTrivy = t, !.hasGitleaks = g, !.trivyExitCode = x] :
     t \in BOOLEAN, g \in BOOLEAN, x \in {0, 1}}

DeployInit == ServerInit /\ nodeEnv = "" /\ requireMain /\ deploy \in DeployStarts

\* The script ends with an exit status; pc stays at the statement that
\* ended it.
Stop(d, code) == [d EXCEPT !.exit = code]

\* The script has run these tools.
Ran(d, tools) == [d EXCEPT !.commands = @ \cup tools]

At(script, pc) == deploy.script = script /\ deploy.pc = pc /\ deploy.exit = -1

\* `trivy image|fs --severity HIGH,CRITICAL target`: the exit status of a
\* scan that fails is non-zero; that of a scan that ran is the configured
\* --exit-code when it reports vulnerabilities, else 0.
TrivyExit(findings, scanError, configured) ==
  IF scanError THEN 1 ELSE IF findings THEN configured ELSE 0

\* One trivy invocation of a script, when trivy is installed: the report is
\* printed, and under `set -e` a non-zero status ends the script at once
\* (the `if [ $? -ne 0 ]` block with its prompt that follows is never
\* reached).
TrivyStep(d, findings, scanError) ==
  IF ~d.hasTrivy THEN d
  ELSE LET r == Ran([d EXCEPT !.reported = @ \/ (findings /\ ~scanError)],
                   {"trivy"}) IN
       IF TrivyExit(findings, scanError, d.trivyExitCode) # 0 THEN Stop(r, 1) ELSE r

\* `trivy image` on the image name of the run: the scan examines the image
\* built by this run only when the build has already happened.
ImageScan(d, findings, scanError) ==
  LET t == TrivyStep(d, findings, scanError) IN
    IF d.hasTrivy /\ ~scanError THEN [t EXCEPT !.imageScanned = d.built] ELSE t

\* A gitleaks that reports the secrets it finds and lets the script go on.
GitleaksStepWarnOnly(d, secrets) ==
  IF d.exit # -1 \/ ~d.hasGitleaks THEN d
  ELSE Ran([d EXCEPT !.secretsFound = @ \/ secrets], {"gitleaks"})

\* One `gitleaks detect` invocation, when gitleaks is installed: it exits 1
\* when it finds secrets, which under `set -e` ends the script at once.
GitleaksStep(d, secrets) ==
  IF d.exit # -1 \/ ~d.hasGitleaks THEN d
  ELSE IF secrets THEN Stop(Ran([d EXCEPT !.secretsFound = TRUE], {"gitleaks"}), 1)
  ELSE Ran(d, {"gitleaks"})

\* Move on to the next statement of main unless the script has ended.
Then(d, pc) == IF d.exit # -1 THEN d ELSE [d EXCEPT !.pc = pc]

\* The environment names main accepts.
ValidEnvironments == {"dev", "staging", "prod"}

\* deploy-app.sh, the argument loop: -h prints the usage and exits 0, an
\* option the case does not list exits 1; otherwise main is called.
app_parse_arguments ==
  /\ At("deploy-app", "parse")
  /\ deploy' = CASE deploy.arguments = "help" -> Stop(deploy, 0)
                  [] deploy.arguments = "unknown" -> Stop(deploy, 1)
                  [] OTHER -> Then(deploy, "validate")
  /\ UNCHANGED serverVars

\* A main that reports the invalid environment and goes on.
app_validate_warn ==
  /\ At("deploy-app", "validate")
  /\ deploy' = Then(deploy, "prereq")
  /\ UNCHANGED serverVars

\* deploy-app.sh main: validate the environment name.
app_validate ==
  /\ At("deploy-app", "validate")
  /\ deploy' = IF deploy.environment \in ValidEnvironments
                 THEN Then(deploy, "prereq") ELSE Stop(deploy, 1)
  /\ UNCHANGED serverVars

\* check_kubectl; check_docker: `kubectl cluster-info`, then `docker info`.
app_check_prereqs(ok) ==
  /\ At("deploy-app", "prereq")
  /\ deploy' = IF ok THEN Then(Ran(deploy, {"kubectl", "docker"}), "tests")
                     ELSE Stop(Ran(deploy, {"kubectl"}), 1)
  /\ UNCHANGED serverVars

\* A run_tests that reports the failure and returns to main.
app_run_tests_warn(pass) ==
  /\ At("deploy-app", "tests")
  /\ deploy' = Then([deploy EXCEPT !.tests = IF deploy.skipTests THEN "skipped"
                                             ELSE IF pass THEN "passed"
                                             ELSE "failed",
                                   !.commands = IF deploy.skipTests THEN @
                                                ELSE @ \cup {"npm"}], "scans")
  /\ UNCHANGED serverVars

\* run_tests unless --skip-tests: `npm test` that fails ends the script
\* under `set -e`.
app_run_tests(pass) ==
  /\ At("deploy-app", "tests")
  /\ deploy' = IF deploy.skipTests THEN Then([deploy EXCEPT !.tests = "skipped"], "scans")
               ELSE IF pass THEN Then(Ran([deploy EXCEPT !.tests = "passed"], {"npm"}),
                                      "scans")
               ELSE Stop(Ran([deploy EXCEPT !.tests = "failed"], {"npm"}), 1)
  /\ UNCHANGED serverVars

\* run_security_scans unless --skip-scans: trivy on the image name about to
\* be built, then gitleaks.
app_run_security_scans(findings, scanError, secrets) ==
  /\ At("deploy-app", "scans")
  /\ deploy' = IF deploy.skipScans THEN Then(deploy, "build")
               ELSE Then(GitleaksStep(ImageScan(deploy, findings, scanError), secrets),
                         "build")
  /\ UNCHANGED serverVars

\* build_and_push_image: docker build, docker tag, and docker push unless
\* the registry is "local".
build_and_push_image(ok) ==
  /\ At("deploy-app", "build")
  /\ deploy' = IF ~ok THEN Stop(Ran(deploy, {"docker"}), 1)
               ELSE Then([Ran(deploy, {"docker"}) EXCEPT !.built = TRUE,
                            !.pushed = deploy.registry # "local"], "deploy")
  /\ UNCHANGED serverVars

\* deploy_to_kubernetes: kubectl apply of the namespace and the deployment,
\* then kubectl wait, which may time out.
deploy_to_kubernetes(ready) ==
  /\ At("deploy-app", "deploy")
  /\ LET d == [Ran(deploy, {"kubectl"}) EXCEPT !.applied = TRUE] IN
       deploy' = IF ready THEN Then(d, "monitoring") ELSE Stop(d, 1)
  /\ UNCHANGED serverVars

\* setup_monitoring: kubectl apply of the monitoring namespace and config.
setup_monitoring ==
  /\ At("deploy-app", "monitoring")
  /\ deploy' = Then(Ran(deploy, {"kubectl"}), "health")
  /\ UNCHANGED serverVars

\* One pass of the loop of check_application_health, entered with
\* attempt = d.attempts + 1 while `attempt -le max_attempts`: an attempt
\* that is answered returns 0 and main prints its success message; one that
\* is not sleeps and counts, and when the loop ends the function returns 1
\* and main exits 1.
HealthAttempt(d, answers, max_attempts) ==
  LET a == [Ran(d, {IF d.script = "deploy-app" THEN "kubectl" ELSE "curl"})
              EXCEPT !.attempts = @ + 1] IN
    IF answers THEN Then([a EXCEPT !.answered = TRUE, !.reportedSuccess = TRUE],
                         "status")
    ELSE IF a.attempts + 1 <= max_attempts THEN a
    ELSE Stop(a, 1)

\* A health check whose loop stops one attempt early (-lt for -le).
app_check_application_health_lt(answers) ==
  /\ At("deploy-app", "health")
  /\ deploy' = HealthAttempt(deploy, answers, MaxAttempts - 1)
  /\ UNCHANGED serverVars

\* check_application_health, one attempt: pods Running and curl -f of
\* /health succeeding, or sleep 10.
app_check_application_health(answers) ==
  /\ At("deploy-app", "health")
  /\ deploy' = HealthAttempt(deploy, answers, MaxAttempts)
  /\ UNCHANGED serverVars

\* show_deployment_status and the access information, after the success
\* message: a kubectl command that fails ends the script under `set -e`.
show_deployment_status(ok) ==
  /\ At("deploy-app", "status")
  /\ deploy' = Stop(Ran(deploy, {"kubectl"}), IF ok THEN 0 ELSE 1)
  /\ UNCHANGED serverVars

\* deploy-local.sh main: check_docker
local_check_docker(ok) ==
  /\ At("deploy-local", "prereq")
  /\ deploy' = IF ok THEN Then(Ran(deploy, {"docker"}), "scans")
                     ELSE Stop(Ran(deploy, {"docker"}), 1)
  /\ UNCHANGED serverVars

\* run_security_scans: gitleaks, then trivy on the working tree.
local_run_security_scans(findings, scanError, secrets) ==
  /\ At("deploy-local", "scans")
  /\ LET g == GitleaksStep(deploy, secrets) IN
       deploy' = Then(IF g.exit # -1 THEN g ELSE TrivyStep(g, findings, scanError),
                      "tests")
  /\ UNCHANGED serverVars

\* run_tests
local_run_tests(pass) ==
  /\ At("deploy-local", "tests")
  /\ deploy' = IF pass THEN Then(Ran([deploy EXCEPT !.tests = "passed"], {"npm"}),
                                 "build")
                       ELSE Stop(Ran([deploy EXCEPT !.tests = "failed"], {"npm"}), 1)
  /\ UNCHANGED serverVars

\* build_docker_image
build_docker_image(ok) ==
  /\ At("deploy-local", "build")
  /\ deploy' = IF ok THEN Then([Ran(deploy, {"docker"}) EXCEPT !.built = TRUE],
                               "containerScan")
                     ELSE Stop(Ran(deploy, {"docker"}), 1)
  /\ UNCHANGED serverVars

\* scan_container: trivy on the image just built.
scan_container(findings, scanError) ==
  /\ At("deploy-local", "containerScan")
  /\ deploy' = Then(ImageScan(deploy, findings, scanError), "start")
  /\ UNCHANGED serverVars

\* start_application: docker run -d of the image.
start_application(ok) ==
  /\ At("deploy-local", "start")
  /\ deploy' = IF ok THEN Then([Ran(deploy, {"docker"}) EXCEPT !.started = TRUE],
                               "health")
                     ELSE Stop(Ran(deploy, {"docker"}), 1)
  /\ UNCHANGED serverVars

\* check_application_health, one attempt: curl -f of localhost:3000/health
\* succeeding, or sleep 2.
local_check_application_health(answers) ==
  /\ At("deploy-local", "health")
  /\ deploy' = HealthAttempt(deploy, answers, MaxAttempts)
  /\ UNCHANGED serverVars

\* show_application_status after the success message: docker ps and
\* docker logs, either of which ends the script when it fails.
show_application_status(ok) ==
  /\ At("deploy-local", "status")
  /\ deploy' = Stop(Ran(deploy, {"docker"}), IF ok THEN 0 ELSE 1)
  /\ UNCHANGED serverVars

DeployNext ==
  \/ app_parse_arguments
  \/ app_validate
  \/ \E ok \in BOOLEAN : app_check_prereqs(ok)
  \/ \E pass \in BOOLEAN : app_run_tests(pass)
  \/ \E f \in BOOLEAN, e \in BOOLEAN, s \in BOOLEAN : app_run_security_scans(f, e, s)
  \/ \E ok \in BOOLEAN : build_and_push_image(ok)
  \/ \E ready \in BOOLEAN : deploy_to_kubernetes(ready)
  \/ setup_monitoring
  \/ \E answers \in BOOLEAN : app_check_application_health(answers)
  \/ \E ok \in BOOLEAN : show_deployment_status(ok)
  \/ \E ok \in BOOLEAN : local_check_docker(ok)
  \/ \E f \in BOOLEAN, e \in BOOLEAN, s \in BOOLEAN : local_run_security_scans(f, e, s)
  \/ \E pass \in BOOLEAN : local_run_tests(pass)
  \/ \E ok \in BOOLEAN : build_docker_image(ok)
  \/ \E f \in BOOLEAN, e \in BOOLEAN : scan_container(f, e)
  \/ \E ok \in BOOLEAN : start_application(ok)
  \/ \E answers \in BOOLEAN : local_check_application_health(answers)
  \/ \E ok \in BOOLEAN : show_application_status(ok)

DeploySpec == DeployInit /\ [][DeployNext]_vars

\* The shell runs the next statement of a script as long as there is one:
\* kubectl, curl and sleep return.
DeployFairSpec == DeploySpec /\ WF_vars(DeployNext)

\* ------------------------------------------------------------- claims
\* The integer a count is read as: `x || 0`.
Count(x) == Or(x, Num(0))[1]

Has(seq, x) == \E i \in 1..Len(seq) : seq[i] = x

Answered == last.res.status # 0

\* A request arrives in this step.
Arrives == \E c \in Conns : conns[c] = "idle" /\ conns'[c] = "busy"

\* The request matches one of the five routes (all are GET routes).
Matched(req) == req.method = "GET" /\ req.path \in RoutePaths

RanRoute == \E i \in 1..Len(last.ran) : last.ran[i] \in RouteNames

\* C1: after N sequential requests, none still in flight, GET /metrics
\* reports http_requests_total.total = N (N below the observer's cap).
C1_TotalEqualsRequests ==
  (last.res.by = "metrics" /\ last.busyBefore = 0 /\ last.completedBefore < MaxCount)
    => last.res.total = Num(last.completedBefore)

\* C2: every arriving request runs the request-counting and the
\* response-time middleware, and requestCount grows by exactly 1 in the
\* step that writes its response.
C2_EveryRequestCounted ==
  [][Arrives => /\ Has(last'.ran, "requestCounter")
                /\ Has(last'.ran, "responseTime")
                /\ Count(requestCount') = Count(requestCount) + 1]_vars

\* C3: when exactly one request has completed, with duration D, and no
\* other is in flight, GET /metrics reports the average D.
C3_AverageIsMean ==
  (last.res.by = "metrics" /\ last.busyBefore = 0 /\ last.completedBefore = 1)
    => last.res.average = <<firstDur, 1>>

HealthOk ==
  /\ last.res.status = 200
  /\ last.res.state = "healthy"
  /\ last.res.uptime >= 0
  /\ last.res.uptime >= last.uptimeBefore

IsGetHealth == last.req.method = "GET" /\ last.req.path = "/health"

\* C4 as stated: every GET /health (here even: every one with a well-formed
\* body) is answered 200 "healthy" with a non-negative, non-decreasing
\* uptime, however many requests the client has sent.
C4_HealthAlwaysOk == (IsGetHealth /\ ~last.req.badBody) => HealthOk

\* C4 amended: a GET /health within the client's allowance and with a body
\* the parser accepts is answered 200 "healthy" with a non-negative uptime
\* not below any uptime reported earlier; beyond the allowance it is
\* answered 429, with an unparseable body 500.
C4_HealthOkWithinLimit ==
  IsGetHealth =>
    IF last.overLimit THEN last.res.status = 429
    ELSE IF last.req.badBody THEN last.res.status = 500
    ELSE HealthOk /\ last.res.by = "health"

\* A later /health call, answered after an earlier one had reported a
\* positive uptime.
C4_Witness ==
  /\ IsGetHealth
  /\ last.res.by = "health"
  /\ last.uptimeBefore >= 1

\* C5: the process has exited with status 0 only when no request is in
\* flight: no connection is left with an undelivered response.
C5_ExitOnlyWhenDrained ==
  (phase = "Stopped" /\ exitCode = 0) => \A c \in Conns : conns[c] # "busy"

\* A signal has been received and a request is in flight.
C5_Witness == phase = "Running" /\ closeCbs > 0 /\ Busy # {}

\* C6: once a signal has been received, no arriving request is answered
\* by a route handler.
C6_NoRequestAfterSignal ==
  [][(closeCbs > 0 /\ Arrives) => last'.res.by \notin RouteNames]_vars

\* C7: a signal received while Running leads to Stopped with exit status
\* 0; Stopped is final; status 0 is only ever the result of a signal.
C7_SignalLeadsToExit ==
  /\ (phase = "Running" /\ closeCbs > 0) ~> (phase = "Stopped" /\ exitCode = 0)
  /\ [][phase = "Stopped" => phase' = "Stopped"]_vars
  /\ [][(exitCode # 0 /\ exitCode' = 0) => closeCbs > 0]_vars

\* C8: a request on which an error was raised is answered 500 "Internal
\* Server Error", the error is logged at error level, and the process
\* keeps running.
C8_ErrorsBecome500 ==
  (last.err # NoErr) =>
    /\ last.res.status = 500
    /\ last.res.error = "Internal Server Error"
    /\ <<"error", "Unhandled error:">> \in last.log

\* C9: the 500 payload carries the real error text in every configuration
\* but production, and "Something went wrong" in production.
C9_DetailOutsideProduction ==
  (last.res.by = "errorHandler") =>
    last.res.message = IF nodeEnv = "production" THEN <<"Something went wrong">>
                                                 ELSE <<last.err.msg>>

NotFoundPayload ==
  /\ last.res.status = 404
  /\ last.res.error = "Not Found"
  /\ Has(last.res.message, last.req.path)

\* C10 as stated: every request that matches none of the five routes is
\* answered 404 "Not Found" with the requested path in the message, and no
\* route handler runs for it.
C10_UnmatchedIs404 ==
  (Answered /\ ~Matched(last.req)) => (NotFoundPayload /\ ~RanRoute)

\* C10 amended: no route handler runs for such a request, and it is
\* answered 404 "Not Found" with the requested path in the message unless
\* the stack answered it earlier: a preflight (OPTIONS) with 204, a request
\* over the rate limit with 429, one with an unparseable body with 500, one
\* whose path is not valid percent-encoding with 400.
C10_UnmatchedIs404UnlessAnsweredEarlier ==
  (Answered /\ ~Matched(last.req)) =>
    /\ ~RanRoute
    /\ IF last.req.method = "OPTIONS" THEN last.res.status = 204
       ELSE IF last.overLimit THEN last.res.status = 429
       ELSE IF last.req.badBody THEN last.res.status = 500
       ELSE IF ~Decodable(last.req.path) THEN last.res.status = 400
       ELSE NotFoundPayload /\ last.res.by = "notFound"

\* An undefined path was requested and answered by the catch-all.
C10_Witness ==
  /\ last.req.path = "/nonexistent"
  /\ last.req.method = "GET"
  /\ last.res.by = "notFound"

\* The name of the route registered for a path.
HandlerOf(path) ==
  StackInOrder[CHOOSE i \in 1..Len(StackInOrder) :
     StackInOrder[i].kind = "route" /\ StackInOrder[i].path = path].name

\* C11 as stated: every GET of one of the five defined paths (here even:
\* every one with a well-formed body) is answered 200 by that path's own
\* handler, however many requests the client has sent.
C11_DefinedPathsAlways200 ==
  (Answered /\ Matched(last.req) /\ ~last.req.badBody) =>
    (last.res.status = 200 /\ last.res.by = HandlerOf(last.req.path))

\* C11 amended: a GET of one of the five defined paths, within the client's
\* allowance and with a body the parser accepts, is answered 200 by that
\* path's own handler and by no other; beyond the allowance it is answered
\* 429 by the limiter, with an unparseable body 500 by the error handler.
C11_DefinedPaths200WithinLimit ==
  (Answered /\ Matched(last.req)) =>
    IF last.overLimit THEN last.res.status = 429 /\ ~RanRoute
    ELSE IF last.req.badBody THEN last.res.status = 500 /\ ~RanRoute
    ELSE /\ last.res.status = 200
         /\ last.res.by = HandlerOf(last.req.path)
         /\ \A i \in 1..Len(last.ran) :
              last.ran[i] \in RouteNames => last.ran[i] = last.res.by

\* The last registered route has answered a request, after the shutdown
\* signal at that.
C11_Witness ==
  /\ last.req.path = "/api/v1/info"
  /\ last.res.by = "info"
  /\ last.res.status = 200
  /\ closeCbs > 0
  /\ Busy # {}

IsGetMetrics == last.req.method = "GET" /\ last.req.path = "/metrics"

\* A float that is a number: neither undefined nor NaN nor an infinity.
Finite(x) == x # NotSet /\ x[2] # 0

\* The /metrics payload: both values are there and are numbers, and both
\* are 0 when no request had been counted.
MetricsPayload ==
  /\ last.res.total # NotSet
  /\ last.res.total[1] >= 0
  /\ Finite(last.res.average)
  /\ Count(last.countBefore) = 0 =>
        (last.res.total = Num(0) /\ last.res.average = <<0, 1>>)

\* C12 as stated: GET /metrics always succeeds, with both values present,
\* and reports 0 for both when no request has been counted; it never fails
\* or reports an undefined value.
C12_MetricsAlwaysSucceeds ==
  IsGetMetrics => (last.res.status = 200 /\ MetricsPayload)

\* C12 amended: a GET /metrics within the client's allowance and with a body
\* the parser accepts succeeds with both values present, never undefined,
\* and 0 for both when no request has been counted; beyond the allowance it
\* is answered 429, with an unparseable body 500.
C12_MetricsSucceedsWithinLimit ==
  IsGetMetrics =>
    IF last.overLimit THEN last.res.status = 429
    ELSE IF last.req.badBody THEN last.res.status = 500
    ELSE last.res.status = 200 /\ last.res.by = "metrics" /\ MetricsPayload

\* /metrics answered before any request had been counted or completed.
C12_Witness ==
  /\ last.res.by = "metrics"
  /\ last.countBefore = NotSet
  /\ last.completedBefore = 0
  /\ last.res.total = Num(0)

\* C13: once every request of a set of n has completed (none is in flight,
\* n below the observer's cap), requestCount is n, and for n = 1 the average
\* response time is that request's duration.
C13_NoLostUpdate ==
  (phase = "Running" /\ Busy = {} /\ completed < MaxCount) =>
    /\ Count(requestCount) = completed
    /\ completed = 1 => Or(avgResponseTime, <<0, 1>>) = <<firstDur, 1>>

\* C14: a startup that does not bind the port (the process leaves Starting
\* with no open listener) ends the process at once with a non-zero exit
\* status; from then on it stays stopped with that status and no listener
\* (no retry), and it never was Running (nothing returns to Starting).
C14_BindFailureIsFatal ==
  /\ [][(phase = "Starting" /\ phase' # "Starting" /\ ~listening') =>
          (phase' = "Stopped" /\ exitCode' > 0)]_vars
  /\ [][exitCode > 0 =>
          (phase' = "Stopped" /\ exitCode' = exitCode /\ ~listening')]_vars
  /\ [][phase' = "Starting" => phase = "Starting"]_vars

\* The bind has failed and the process has exited with status 1.
C14_Witness == phase = "Stopped" /\ exitCode = 1 /\ ~listening

\* C15: requestCount, read as the program reads it (`|| 0`), is 0 when the
\* process starts, and no step of any execution makes it smaller.
C15_CountNeverDecreases ==
  /\ Count(requestCount) = 0
  /\ [][Count(requestCount') >= Count(requestCount)]_vars

\* A whole process lifetime with requests served: started, answered
\* requests, shut down by a signal.
C15_Witness ==
  /\ phase = "Stopped"
  /\ exitCode = 0
  /\ completed >= 1
  /\ Count(requestCount) = 0

\* C16: whenever /metrics reports an average, it is a finite number, not
\* below 0 (so neither NaN nor an infinity, the results of a division by
\* zero), and it is 0 when no request had completed before.
C16_AverageFiniteNonNegative ==
  last.res.by = "metrics" =>
    /\ Finite(last.res.average)
    /\ last.res.average[1] >= 0
    /\ last.res.average[2] > 0
    /\ last.completedBefore = 0 => last.res.average = <<0, 1>>

\* /metrics answered after a request that took time had completed.
C16_Witness ==
  /\ last.res.by = "metrics"
  /\ last.completedBefore >= 1
  /\ firstDur >= 1

IsGetInfo == last.req.method = "GET" /\ last.req.path = "/api/v1/info"

\* The one body /api/v1/info has.
InfoBody ==
  [NoRes EXCEPT !.status = 200, !.by = "info",
     !.application = "DevOps CI/CD Pipeline Demo", !.version = "1.0.0",
     !.technologies = <<"Node.js", "Express", "Docker", "Kubernetes",
                        "Jenkins", "GitHub Actions", "Terraform", "Ansible",
                        "SonarQube", "Trivy", "Prometheus", "Grafana">>]

\* C17: every successful answer to GET /api/v1/info is the same response,
\* with the same non-empty technologies list in the same order, whatever
\* the time, the counters, the configuration and the requests before it;
\* and two answers in a row are equal.
C17_InfoBodyIsConstant ==
  /\ []((IsGetInfo /\ last.res.status = 200) =>
          (last.res = InfoBody /\ Len(last.res.technologies) > 0))
  /\ [][(last.res.by = "info" /\ last'.res.by = "info") =>
          last'.res = last.res]_vars

\* /api/v1/info answered later in the process's life: time has passed,
\* an earlier request has completed, the client has used some allowance.
C17_Witness ==
  /\ last.res.by = "info"
  /\ clock >= 1
  /\ completed >= 1
  /\ hits >= 2

\* The error-level entries of a log (what error.log receives).
ErrorEntries(log) == {e \in log : e[1] = "error"}

\* C18: a request answered by the 404 handler leaves no error-level log
\* entry, nor does any unmatched request on which no error was raised;
\* error-level entries are written by the error boundary only.
C18_NotFoundLogsNoError ==
  /\ last.res.by = "notFound" => ErrorEntries(last.log) = {}
  /\ (Answered /\ ~Matched(last.req) /\ last.err = NoErr) =>
       ErrorEntries(last.log) = {}
  /\ ErrorEntries(last.log) # {} => Has(last.ran, "errorHandler")

\* A POST to an undefined path answered by the 404 handler, its access
\* line logged at info level.
C18_Witness ==
  /\ last.req.method = "POST"
  /\ last.req.path = "/nonexistent"
  /\ last.res.status = 404
  /\ last.res.by = "notFound"
  /\ <<"info", "access">> \in last.log

\* C19 as stated: every request of a client that has used up its 100
\* requests of the window is answered 429 and reaches no route handler.
C19_BeyondLimitAlways429 ==
  last.overLimit => (last.res.status = 429 /\ ~RanRoute)

\* C19 amended: the limiter counts every request that is not a preflight;
\* a request of a client that has used up its 100 requests of the window
\* reaches no route handler and is answered 429, a preflight (OPTIONS) 204
\* by cors, which runs ahead of the limiter; within the allowance, so also
\* after the window has expired, no request is refused.
C19_AtMost100PerWindow ==
  /\ [](last.overLimit =>
          /\ ~RanRoute
          /\ IF last.req.method = "OPTIONS" THEN last.res.status = 204
                                            ELSE last.res.status = 429)
  /\ [](~last.overLimit => last.res.status # 429)
  /\ [][(Arrives /\ last'.req.method # "OPTIONS") => hits' = hits + 1]_vars
  /\ [][(Arrives /\ last'.req.method = "OPTIONS") => hits' = hits]_vars

\* The 101st counted request of a window, refused by the limiter.
C19_Witness ==
  /\ last.overLimit
  /\ hits = RateMax + 1
  /\ last.res.status = 429
  /\ last.res.by = "limiter"

\* C20: in either deployment script, with scans not skipped, once a Trivy
\* scan has reported HIGH or CRITICAL vulnerabilities no image is pushed,
\* nothing is applied to Kubernetes and no container is started.
C20_FindingsBlockDeployment ==
  (deploy.reported /\ ~deploy.skipScans) =>
    (~deploy.pushed /\ ~deploy.applied /\ ~deploy.started)

\* C21: in either deployment script, once gitleaks (installed, scans not
\* skipped) has found secrets the script has ended with a non-zero status
\* and no image is built or pushed, nothing is applied to Kubernetes and no
\* container is started.
C21_SecretsStopDeployment ==
  deploy.secretsFound =>
    /\ deploy.hasGitleaks /\ ~deploy.skipScans
    /\ deploy.exit > 0
    /\ ~deploy.built /\ ~deploy.pushed /\ ~deploy.applied /\ ~deploy.started

C21_Witness ==
  /\ deploy.script = "deploy-app"
  /\ deploy.secretsFound
  /\ deploy.exit = 1

\* C22: in a run with trivy installed and scans not skipped, an image is
\* pushed, applied to Kubernetes or started only after trivy has scanned
\* the image that this run built (build, container scan, push, deploy).
C22_ScanAfterBuildBeforePush ==
  (deploy.hasTrivy /\ ~deploy.skipScans
     /\ (deploy.pushed \/ deploy.applied \/ deploy.started))
    => deploy.imageScanned

\* The invocation of deploy-app.sh was turned down: the script ended with
\* status 1 in its argument loop or at main's check of the environment.
Rejected ==
  /\ deploy.script = "deploy-app"
  /\ deploy.pc \in {"parse", "validate"}
  /\ deploy.exit = 1

\* The environments the documentation names as deployment targets.
DocumentedEnvironments == {"dev", "staging", "production"}

\* C23: deploy-app.sh called with known options and -e dev, -e staging or
\* -e production is not turned down.
C23_DocumentedEnvironmentsAccepted ==
  (deploy.script = "deploy-app" /\ deploy.arguments = "known"
     /\ deploy.environment \in DocumentedEnvironments)
    => ~Rejected

\* Something of the deployment has happened: an image built or pushed, a
\* deployment applied to Kubernetes, a container started.
Deployed ==
  deploy.built \/ deploy.pushed \/ deploy.applied \/ deploy.started

\* C24: once the tests have failed the script has ended with a non-zero
\* status and nothing is built, pushed, applied or started; whatever is
\* built, pushed, applied or started comes after tests that passed, or
\* after tests skipped by --skip-tests.
C24_TestsGateDeployment ==
  /\ deploy.tests = "failed" => (deploy.exit > 0 /\ ~Deployed)
  /\ Deployed => \/ deploy.tests = "passed"
                 \/ deploy.tests = "skipped" /\ deploy.skipTests

C24_Witness ==
  /\ deploy.script = "deploy-app"
  /\ deploy.tests = "failed"
  /\ deploy.exit = 1
  /\ ~deploy.skipTests

\* C25: the health check loop makes at most 30 attempts and ends: the
\* attempt that is answered ends it with success, and only then is the
\* success message printed; it ends with failure exactly after 30
\* unanswered attempts, and then the script exits 1.
C25_HealthLoopBounded ==
  /\ [](/\ deploy.attempts <= MaxAttempts
        /\ deploy.answered => deploy.pc = "status"
        /\ deploy.reportedSuccess => deploy.answered
        /\ (deploy.pc = "health" /\ deploy.exit # -1) =>
             (deploy.exit = 1 /\ deploy.attempts = MaxAttempts /\ ~deploy.answered)
        /\ (deploy.attempts = MaxAttempts /\ ~deploy.answered) => deploy.exit = 1)
  /\ (deploy.pc = "health" /\ deploy.exit = -1) ~> (deploy.exit # -1)

C25_Witness ==
  /\ deploy.script = "deploy-app"
  /\ deploy.pc = "health"
  /\ deploy.attempts = MaxAttempts
  /\ deploy.exit = 1

\* deploy-app.sh was called with an option it does not know, or with known
\* options and an environment main does not accept.
BadInvocation ==
  /\ deploy.script = "deploy-app"
  /\ \/ deploy.arguments = "unknown"
     \/ deploy.arguments = "known" /\ deploy.environment \notin ValidEnvironments

\* C27: deploy-app.sh called with an unknown option or an invalid
\* environment never gets past its argument loop and main's check of the
\* environment: it ends there with status 1, having run no npm, trivy,
\* gitleaks, docker or kubectl command and built, pushed, applied and
\* started nothing.
C27_BadInvocationChangesNothing ==
  BadInvocation =>
    /\ deploy.pc \in {"parse", "validate"}
    /\ deploy.exit \in {-1, 1}
    /\ deploy.commands = {}
    /\ deploy.tests = "none"
    /\ ~Deployed

C27_Witness ==
  /\ BadInvocation
  /\ deploy.arguments = "known"
  /\ deploy.pc = "validate"
  /\ deploy.exit = 1

\* C26: a listener is bound only in a process that runs server.js as its
\* main module; importing the module binds none.
C26_ListenerOnlyWhenMain == listening => requireMain

\* The layers the claim names as those that answer, and the status each
\* answers with; the two more that answer in the code.
NamedResponders == {"limiter", "errorHandler", "notFound"} \cup RouteNames

ResponderStatus(by) ==
  CASE by = "limiter" -> 429
    [] by = "errorHandler" -> 500
    [] by = "notFound" -> 404
    [] by = "cors" -> 204
    [] by = "finalhandler" -> 400
    [] OTHER -> 200

\* C28 as stated: every request taken by the running service is answered
\* exactly once, by the limiter, a route handler, the error boundary or the
\* 404 handler.
C28_AnsweredOnceByNamed ==
  last.req # NoReq =>
    /\ last.sends = 1
    /\ last.res.by \in NamedResponders

\* C28 amended: every such request is answered exactly once, by exactly one
\* of the limiter (429), the matching route handler (200), the error
\* boundary (500), the 404 handler (404), cors for a preflight (204) or
\* Express's final handler for a path that cannot be decoded (400).
C28_AnsweredOnce ==
  last.req # NoReq =>
    /\ last.sends = 1
    /\ last.res.by \in NamedResponders \cup {"cors", "finalhandler"}
    /\ last.res.status = ResponderStatus(last.res.by)
    /\ last.res.by = "cors" <=> last.req.method = "OPTIONS"
    /\ last.res.by = "finalhandler" =>
         (~Decodable(last.req.path) /\ ~last.req.badBody /\ ~last.overLimit)
    /\ last.res.by \in RouteNames =>
         (Matched(last.req) /\ last.res.by = HandlerOf(last.req.path))

\* A request was answered by the error boundary, after the limiter and
\* the body parser had run and before the 404 handler could.
C28_Witness ==
  /\ last.req # NoReq
  /\ last.res.by = "errorHandler"
  /\ last.sends = 1
  /\ Has(last.ran, "limiter")
  /\ ~Has(last.ran, "notFound")

\* The request names one of the five defined paths with a method other
\* than GET.
NonGetOfDefinedPath ==
  /\ last.req # NoReq
  /\ last.req.method # "GET"
  /\ last.req.path \in RoutePaths

\* C29 as stated (here even: within the rate limit and with a well-formed
\* body): such a request is not handled by the path's handler and is
\* answered 404 "Not Found" by the catch-all.
C29_NonGetIs404 ==
  (NonGetOfDefinedPath /\ ~last.overLimit /\ ~last.req.badBody) =>
    (~RanRoute /\ NotFoundPayload /\ last.res.by = "notFound")

\* C29 amended: no route handler runs for such a request, and the
\* catch-all answers it 404 "Not Found" unless the stack answered it
\* earlier: a preflight (OPTIONS) with 204, a request over the rate limit
\* with 429, one with an unparseable body with 500.
C29_NonGetIs404UnlessAnsweredEarlier ==
  NonGetOfDefinedPath =>
    /\ ~RanRoute
    /\ IF last.req.method = "OPTIONS" THEN last.res.status = 204 /\ last.res.by = "cors"
       ELSE IF last.overLimit THEN last.res.status = 429
       ELSE IF last.req.badBody THEN last.res.status = 500
       ELSE NotFoundPayload /\ last.res.by = "notFound"

\* POST /health was answered by the catch-all.
C29_Witness ==
  /\ NonGetOfDefinedPath
  /\ last.req.method = "POST"
  /\ last.req.path = "/health"
  /\ ~last.req.badBody
  /\ last.res.by = "notFound"
  /\ last.res.status = 404

\* A second signal arrives while the first one's close is pending: the
\* process neither exits nor crashes in that step and no connection is
\* touched; when the process then stops, it does so with status 0 and no
\* request in flight; and a stopped process stays as it stopped.
SecondSignalSafe ==
  /\ [][(closeCbs >= 1 /\ closeCbs' = closeCbs + 1) =>
          (phase' = "Running" /\ exitCode' = -1 /\ conns' = conns)]_vars
  /\ [][(closeCbs >= 2 /\ phase' = "Stopped") => (exitCode' = 0 /\ Busy = {})]_vars
  /\ [][phase = "Stopped" => (phase' = "Stopped" /\ exitCode' = exitCode)]_vars

\* C30: a second termination signal while the service drains does not end
\* the process early and does not crash it, and the process still exits,
\* once, with status 0.
C30_SecondSignalStillExits ==
  /\ SecondSignalSafe
  /\ (phase = "Running" /\ closeCbs >= 2) ~> (phase = "Stopped" /\ exitCode = 0)
====
